---- MODULE Spec2Model ----
(***************************************************************************)
(* Digg Daily Player (chrome-extension/popup.js): the episode resolution   *)
(* and cache engine and the popup's three-panel presentation, as a state   *)
(* machine.  Every `await` of the source is a point where a resolution is  *)
(* suspended; the step that resumes it runs the code up to the next await. *)
(*                                                                         *)
(* The content script (chrome-extension/content.js) is a second machine   *)
(* over the page it runs on: ContentSpec.                                  *)
(*                                                                         *)
(* Optional values (null / a value) are sequences of length 0 or 1.        *)
(* Time is in milliseconds, as Date.now() gives it.                        *)
(***************************************************************************)
EXTENDS Naturals, Integers, Sequences, FiniteSets, TLC

VARIABLES
    now,        \* Date.now()
    ticks,      \* number of clock advances so far
    store,      \* chrome.storage.local[CACHE_KEY]: <<>> or <<episode>>
    popup,      \* "closed" or "open"
    hidden,     \* per panel: does its classList contain 'hidden'
    shown,      \* what showPlayer rendered last: <<>> or <<episode>>
    errorText,  \* #error-message textContent
    tasks,      \* the resolutions started in this popup, in start order
    started,    \* resolutions started so far, over all popups
    settled,    \* the resolution that finished last in this popup: <<>> or <<task>>
    orphans,    \* storage calls issued by a popup that was closed since
    probeIn,    \* function harness: the input drawn
    probeOut,   \* function harness: the result computed
    hostname,   \* content script: window.location.hostname, in pieces
    readyState, \* content script: document.readyState
    script,     \* content script: "idle" before it has run, then "ran"
    listening,  \* its DOMContentLoaded listener is registered and has not run
    observing,  \* its MutationObserver observes document.body
    records,    \* mutation records are queued for the observer
    button,     \* number of elements with id digg-daily-quick-play
    anchors,    \* the <a> elements of the page: their parent and href
    marked,     \* the elements whose classList has 'digg-daily-official'
    changes,    \* changes the page has made to its tree so far
    sincePasses,\* marking passes run since the tree last changed
    lastPass    \* what ran the last marking pass: "none", "load", "observer"

vars == <<now, ticks, store, popup, hidden, shown, errorText, tasks, started,
          settled, orphans, probeIn, probeOut, hostname, readyState, script,
          listening, observing, records, button, anchors, marked, changes,
          sincePasses, lastPass>>

----------------------------------------------------------------------------
(* Bounds of the model *)

MaxTicks == 2
MaxStarts == 2
MaxEpisodes == 3
MaxAgeMinutes == 32
MaxAnchors == 2
MaxChanges == 2

MinuteMs == 60 * 1000
ClockSteps == {15 * MinuteMs}

----------------------------------------------------------------------------
(* Program constants, popup.js:8-12 *)

DIGGDAILY_URL == "https://digg.com/diggdaily"
CDN_BASE == "https://d3tha58ojcqcpf.cloudfront.net/prod/episodes"
CACHE_DURATION_MS == 30 * 60 * 1000

----------------------------------------------------------------------------
(* Raw episodes of the remote API.  published_date is an ISO timestamp,    *)
(* kept as its calendar day and hour of day (UTC).                         *)

PublishedStates == {"PUBLISHED", "DRAFT", "published"}
PublishedDates == {[day |-> 1, hour |-> 0], [day |-> 1, hour |-> 12],
                   [day |-> 2, hour |-> 0]}

\* the i-th raw episode of a payload: identifier, file and number follow i
RawEpisode(i, state, date) ==
    [episode_id |-> i, file_name |-> i, episode_number |-> 39 + i,
     published_state |-> state, published_date |-> date]

\* new Date(published_date): the instant, in hours
DateValue(d) == d.day * 24 + d.hour

\* published_date.split('T')[0]
DatePart(d) == d.day

\* createTitle(publishedDate, episodeNumber)
createTitle(publishedDate, episodeNumber) ==
    [number |-> episodeNumber, day |-> publishedDate.day]

\* ep => ep.published_state === 'PUBLISHED'
\* (variant: the state compared without regard to case)
IsPublishedAnyCase(ep) == ep.published_state \in {"PUBLISHED", "published"}
IsPublished(ep) == ep.published_state = "PUBLISHED"

\* data.episodes.filter(...)
RECURSIVE FilterPublished(_)
FilterPublished(eps) ==
    IF eps = <<>> THEN <<>>
    ELSE IF IsPublished(Head(eps))
         THEN <<Head(eps)>> \o FilterPublished(Tail(eps))
         ELSE FilterPublished(Tail(eps))

\* (a, b) => new Date(b.published_date) - new Date(a.published_date)
\* (variant: the operands exchanged)
CompareAscending(a, b) == DateValue(a.published_date) - DateValue(b.published_date)
CompareDates(a, b) == DateValue(b.published_date) - DateValue(a.published_date)

\* Array.prototype.sort with that comparator: a stable sort
RECURSIVE InsertSorted(_, _)
InsertSorted(e, sorted) ==
    IF sorted = <<>> THEN <<e>>
    ELSE IF CompareDates(Head(sorted), e) <= 0
         THEN <<Head(sorted)>> \o InsertSorted(e, Tail(sorted))
         ELSE <<e>> \o sorted

RECURSIVE SortEpisodes(_)
SortEpisodes(eps) ==
    IF eps = <<>> THEN <<>>
    ELSE InsertSorted(eps[Len(eps)], SortEpisodes(SubSeq(eps, 1, Len(eps) - 1)))

----------------------------------------------------------------------------
(* fetchLatestEpisode after the payload is parsed, popup.js:58-83.          *)
(* A payload is [episodes |-> <<>>] when the field is missing and           *)
(* [episodes |-> <<eps>>] when it holds the array eps.                      *)

NoEpisodesMessage == "No episodes available"
NoPublishedMessage == "No published episodes found"
FetchRejectMessage == "Failed to fetch"
JsonRejectMessage == "Unexpected end of JSON input"

\* `API request failed: ${response.status}`
ApiFailedMessage(status) == "API request failed: " \o ToString(status)

Thrown(message) == [error |-> <<message>>, episode |-> <<>>]
Returned(episode) == [error |-> <<>>, episode |-> <<episode>>]

\* the episode record built from the latest published raw episode
BuildEpisode(latest, t) ==
    [title |-> createTitle(latest.published_date, latest.episode_number),
     date |-> DatePart(latest.published_date),
     episodeNumber |-> latest.episode_number,
     diggUrl |-> DIGGDAILY_URL,
     audioUrl |-> <<CDN_BASE, latest.episode_id, latest.file_name>>,
     fetchedAt |-> t]

\* !data.episodes || data.episodes.length === 0
\* (variant: the length test left out)
NoEpisodesFieldOnly(data) == data.episodes = <<>>
NoEpisodes(data) == data.episodes = <<>> \/ Len(data.episodes[1]) = 0

SelectEpisode(data, t) ==
    IF NoEpisodes(data) THEN Thrown(NoEpisodesMessage)
    ELSE LET publishedEpisodes == FilterPublished(data.episodes[1])
         IN  IF Len(publishedEpisodes) = 0 THEN Thrown(NoPublishedMessage)
             ELSE Returned(BuildEpisode(SortEpisodes(publishedEpisodes)[1], t))

\* response.ok: the status is in 200..299
ResponseOk(response) == response.status >= 200 /\ response.status <= 299

\* popup.js:51-54.  A transport outcome is [rejected, status]: fetch rejects,
\* or settles with a response of that status.
CheckResponse(transport) ==
    IF transport.rejected THEN <<FetchRejectMessage>>
    ELSE IF ~ResponseOk([status |-> transport.status])
         THEN <<ApiFailedMessage(transport.status)>>
         ELSE <<>>

\* popup.js:56-83.  A body is [malformed, data]: response.json() rejects,
\* or settles with the payload data.
ParseAndSelect(body, t) ==
    IF body.malformed THEN Thrown(JsonRejectMessage)
    ELSE SelectEpisode(body.data, t)

\* popup.js:51-83 in one piece: what fetchLatestEpisode does on a cache miss
\* with the transport outcome and the body it gets
FetchAndSelect(transport, body, t) ==
    IF CheckResponse(transport) # <<>> THEN Thrown(CheckResponse(transport)[1])
    ELSE ParseAndSelect(body, t)

----------------------------------------------------------------------------
(* getCachedEpisode, popup.js:94-106, from the point where storage.get      *)
(* settles: readOk is FALSE when it rejects, entry is result[CACHE_KEY].    *)

\* (variants: the comparison reversed, the comparison not strict)
CacheFreshInverted(entry, t) ==
    entry # <<>> /\ (t - entry[1].fetchedAt) > CACHE_DURATION_MS
CacheFreshInclusive(entry, t) ==
    entry # <<>> /\ (t - entry[1].fetchedAt) <= CACHE_DURATION_MS
CacheFresh(entry, t) ==
    entry # <<>> /\ (t - entry[1].fetchedAt) < CACHE_DURATION_MS

getCachedEpisode(readOk, entry, t) ==
    IF readOk /\ CacheFresh(entry, t) THEN entry ELSE <<>>

\* cacheEpisode, popup.js:111-117: the store after storage.set settles
\* (variant: the storage.set left out)
cacheEpisodeDropped(writeOk, entry, episode) == entry
cacheEpisode(writeOk, entry, episode) ==
    IF writeOk THEN <<episode>> ELSE entry

\* clearCache, popup.js:122-128: the store after storage.remove settles
clearCache(removeOk, entry) ==
    IF removeOk THEN <<>> ELSE entry

----------------------------------------------------------------------------
(* The popup's panels.  hidden[p] is TRUE when panel p carries the class    *)
(* 'hidden'.                                                                *)

Panels == {"loading", "player", "error"}

\* popup.html as loaded: the loading panel is the one shown
InitialPanels == [p \in Panels |-> p # "loading"]

\* showPlayer, popup.js:151-153
showPlayerPanels(h) ==
    [h EXCEPT !["loading"] = TRUE, !["error"] = TRUE, !["player"] = FALSE]

\* showError, popup.js:169-171
\* (variant: the player panel not hidden)
showErrorPanelsKeepPlayer(h) ==
    [h EXCEPT !["loading"] = TRUE, !["error"] = FALSE]
showErrorPanels(h) ==
    [h EXCEPT !["loading"] = TRUE, !["player"] = TRUE, !["error"] = FALSE]

\* the refresh click handler, popup.js:185-187
showLoadingPanels(h) ==
    [h EXCEPT !["player"] = TRUE, !["error"] = TRUE, !["loading"] = FALSE]

----------------------------------------------------------------------------
(* One resolution: a call of loadEpisode, suspended at the await named by   *)
(* pc.  cleared, read and wrote keep whether its storage.remove,            *)
(* storage.get and storage.set settled ("ok") or rejected ("failed").       *)
(* id is the resolution's place in tasks, filled in when it is settled.     *)

NewTask(forced, pc) ==
    [pc |-> pc, forced |-> forced, net |-> 0,
     cleared |-> "none", read |-> "none", wrote |-> "none",
     episode |-> <<>>, outcome |-> "pending", value |-> <<>>, message |-> "",
     id |-> 0]

Running(i) == i \in DOMAIN tasks /\ tasks[i].pc # "done"

\* a finished resolution keeps its outcome; all it did is kept in settled
Finished(task) ==
    [NewTask(task.forced, "done") EXCEPT !.outcome = task.outcome,
                                         !.net = task.net]

\* loadEpisode's try branch: showPlayer(episode)
\* (variant: the player panel is shown without rendering the episode)
SucceedNoRender(i, task, episode) ==
    LET done == [task EXCEPT !.pc = "done", !.outcome = "player",
                             !.value = <<episode>>, !.id = i]
    IN  /\ tasks' = [tasks EXCEPT ![i] = Finished(done)]
        /\ settled' = <<done>>
        /\ hidden' = showPlayerPanels(hidden)
        /\ UNCHANGED <<shown, errorText>>
Succeed(i, task, episode) ==
    LET done == [task EXCEPT !.pc = "done", !.outcome = "player",
                             !.value = <<episode>>, !.id = i]
    IN  /\ tasks' = [tasks EXCEPT ![i] = Finished(done)]
        /\ settled' = <<done>>
        /\ hidden' = showPlayerPanels(hidden)
        /\ shown' = <<episode>>
        /\ UNCHANGED errorText

\* loadEpisode's catch branch: showError(err.message)
\* (variant: loadEpisode without its catch, the rejection is unhandled)
FailUnhandled(i, task, message) ==
    LET done == [task EXCEPT !.pc = "done", !.outcome = "error",
                             !.message = message, !.id = i]
    IN  /\ tasks' = [tasks EXCEPT ![i] = Finished(done)]
        /\ settled' = <<done>>
        /\ UNCHANGED <<hidden, errorText, shown>>
\* (variant: a fixed text shown instead of err.message)
FailGeneric(i, task, message) ==
    LET done == [task EXCEPT !.pc = "done", !.outcome = "error",
                             !.message = message, !.id = i]
    IN  /\ tasks' = [tasks EXCEPT ![i] = Finished(done)]
        /\ settled' = <<done>>
        /\ hidden' = showErrorPanels(hidden)
        /\ errorText' = "Failed to load episode"
        /\ UNCHANGED shown
Fail(i, task, message) ==
    LET done == [task EXCEPT !.pc = "done", !.outcome = "error",
                             !.message = message, !.id = i]
    IN  /\ tasks' = [tasks EXCEPT ![i] = Finished(done)]
        /\ settled' = <<done>>
        /\ hidden' = showErrorPanels(hidden)
        /\ errorText' = message
        /\ UNCHANGED shown

----------------------------------------------------------------------------
(* What the environment can answer *)

Statuses == {200, 404, 500}

Payloads ==
    { [episodes |-> <<>>],
      [episodes |-> << <<>> >>],
      [episodes |-> << <<RawEpisode(1, "DRAFT", [day |-> 2, hour |-> 0])>> >>],
      [episodes |-> << <<RawEpisode(1, "PUBLISHED", [day |-> 1, hour |-> 0]),
                         RawEpisode(2, "DRAFT", [day |-> 2, hour |-> 0])>> >>] }

Transports ==
    {[rejected |-> TRUE, status |-> 0]}
        \cup {[rejected |-> FALSE, status |-> st] : st \in Statuses}

NoData == [episodes |-> <<>>]

Bodies ==
    {[malformed |-> TRUE, data |-> NoData]}
        \cup {[malformed |-> FALSE, data |-> d] : d \in Payloads}

----------------------------------------------------------------------------
(* Inputs of the functions, for the function harness *)

RawChoices == PublishedStates \X PublishedDates

\* all arrays of at most MaxEpisodes raw episodes
EpisodeArrays ==
    UNION { { [i \in 1..n |-> RawEpisode(i, c[i][1], c[i][2])] :
                c \in [1..n -> RawChoices] } : n \in 0..MaxEpisodes }

AllPayloads == {NoData} \cup {[episodes |-> <<eps>>] : eps \in EpisodeArrays}

\* an entry stored at time 0, as BuildEpisode makes it
ProbeEntry ==
    BuildEpisode(RawEpisode(1, "PUBLISHED", [day |-> 1, hour |-> 0]), 0)

ProbeShape(kind, data, transport, body, readOk, entry, t) ==
    [kind |-> kind, data |-> data, transport |-> transport, body |-> body,
     readOk |-> readOk, entry |-> entry, t |-> t]

NoProbe ==
    ProbeShape("none", NoData, [rejected |-> TRUE, status |-> 0],
               [malformed |-> TRUE, data |-> NoData], TRUE, <<>>, 0)

SelectProbes ==
    {[NoProbe EXCEPT !.kind = "select", !.data = d] : d \in AllPayloads}

CacheProbes ==
    {[NoProbe EXCEPT !.kind = "cache", !.readOk = ok, !.entry = e,
                     !.t = age * MinuteMs] :
        ok \in BOOLEAN, e \in {<<>>, <<ProbeEntry>>}, age \in 0..MaxAgeMinutes}

FetchProbes ==
    {[NoProbe EXCEPT !.kind = "fetch", !.transport = tr, !.body = b] :
        tr \in Transports, b \in Bodies}

----------------------------------------------------------------------------
(* The content script (chrome-extension/content.js).  A string that the    *)
(* script searches with includes() is kept as the sequence of its pieces,   *)
(* cut so that every searched substring is a run of whole pieces.           *)

\* does the text contain the searched pieces, one after the other
Includes(text, needle) ==
    \E k \in 0..(Len(text) - Len(needle)) :
        SubSeq(text, k + 1, k + Len(needle)) = needle

\* 'digg.com', content.js:9
TARGET_HOST == <<"digg.com">>

\* window.location.hostname of the pages the script is run on
Hostnames ==
    {<<"digg.com">>, <<"www.", "digg.com">>, <<"not", "digg.com">>,
     <<"example.org">>}

\* content.js:9
HostGuard(host) == Includes(host, TARGET_HOST)

\* '/diggdaily/', '/digg-daily-', 'homemade', 'recap', content.js:37-45
COMMUNITY_PATH == <<"/diggdaily", "/">>
OFFICIAL_PATH == <<"/", "digg-daily-">>
HOMEMADE == <<"homemade">>
RECAP == <<"recap">>

\* the href attributes of the page's anchors:
\*   /diggdaily/digg-daily-123, /diggdaily/digg-daily-homemade-5,
\*   /diggdaily/digg-daily-recap-7, /news/digg-daily-123, /diggdaily/about
Hrefs ==
    {<<"/diggdaily", "/", "digg-daily-", "123">>,
     <<"/diggdaily", "/", "digg-daily-", "homemade", "-5">>,
     <<"/diggdaily", "/", "digg-daily-", "recap", "-7">>,
     <<"/news", "/", "digg-daily-", "123">>,
     <<"/diggdaily", "/", "about">>}

\* the elements of the page that hold anchors: an <article> under the body,
\* a <div> inside that article, a <div> under the body, and the body
Parents == {"article", "articleDiv", "div", "body"}

TagName(el) ==
    IF el = "article" THEN "article"
    ELSE IF el = "body" THEN "body"
    ELSE "div"

\* an element and its ancestors, innermost first
Path(el) ==
    IF el = "articleDiv" THEN <<"articleDiv", "article", "body">>
    ELSE IF el = "body" THEN <<"body">>
    ELSE <<el, "body">>

\* link.closest(tag) of an anchor whose parent is el: <<>> or <<element>>
closest(el, tag) ==
    LET hits == {k \in DOMAIN Path(el) : TagName(Path(el)[k]) = tag}
    IN  IF hits = {} THEN <<>>
        ELSE <<Path(el)[CHOOSE k \in hits : \A j \in hits : k <= j]>>

\* content.js:48
\* (variant: link.closest('article') alone)
ContainerArticleOnly(el) == closest(el, "article")
Container(el) ==
    IF closest(el, "article") # <<>>
    THEN closest(el, "article")
    ELSE closest(el, "div")

\* content.js:43-45
\* (variant: without the two exclusions)
IsOfficialNoExclusion(href) == Includes(href, OFFICIAL_PATH)
IsOfficial(href) ==
    /\ Includes(href, OFFICIAL_PATH)
    /\ ~Includes(href, HOMEMADE)
    /\ ~Includes(href, RECAP)

\* document.querySelectorAll('a[href*="/diggdaily/"]'), content.js:37
SelectLinks(all) == {a \in all : Includes(a.href, COMMUNITY_PATH)}

\* the containers the pass finds for the official links, content.js:39-48
OfficialContainers(all) ==
    {Container(a.parent)[1] :
        a \in {l \in SelectLinks(all) :
                  IsOfficial(l.href) /\ Container(l.parent) # <<>>}}

\* content.js:36-54: the classList of each container found gets the class
\* (variant: the class is taken off every container not found)
highlightResets(all, classed) == OfficialContainers(all)
\* (variant: classList.toggle in place of the presence check and add)
highlightToggles(all, classed) ==
    (classed \ OfficialContainers(all)) \cup (OfficialContainers(all) \ classed)
highlightOfficialPosts(all, classed) ==
    classed \cup OfficialContainers(all)

\* content.js:13-33: the number of buttons after the call
\* (variant: without the getElementById check)
addQuickPlayButtonUnchecked(count) == count + 1
addQuickPlayButton(count) == IF count > 0 THEN count ELSE count + 1

\* content.js:72-75: the kinds of mutation the observer is subscribed to
\* (variant: attributes: true as well)
ObservedWithAttributes(kind) == kind \in {"childList", "attributes"}
Observed(kind) == kind = "childList"

PageVars == <<hostname, readyState, script, listening, observing, records,
              button, anchors, marked, changes, sincePasses, lastPass>>

\* the page before the content script runs
PageIdle ==
    /\ readyState = "loading" /\ script = "idle"
    /\ listening = FALSE /\ observing = FALSE /\ records = FALSE
    /\ button = 0 /\ anchors = {} /\ marked = {}
    /\ changes = 0 /\ sincePasses = 0 /\ lastPass = "none"

----------------------------------------------------------------------------
(* Actions *)

PopupVars == <<popup, hidden, shown, errorText, tasks, started, settled>>
ProbeVars == <<probeIn, probeOut>>

\* the pending storage call of a suspended resolution, if it has one
PendingCall(task) ==
    IF task.pc = "set" THEN {[op |-> "set", episode |-> task.episode[1]]}
    ELSE IF task.pc = "clear" THEN {[op |-> "remove", episode |-> <<>>]}
    ELSE {}

\* Date.now() advances
Tick ==
    /\ ticks < MaxTicks
    /\ \E d \in ClockSteps : now' = now + d
    /\ ticks' = ticks + 1
    /\ UNCHANGED <<store, PopupVars, orphans, ProbeVars, PageVars>>

\* DOMContentLoaded -> init -> loadEpisode -> fetchLatestEpisode ->
\* getCachedEpisode, up to `await chrome.storage.local.get`
Open ==
    /\ popup = "closed"
    /\ started < MaxStarts
    /\ popup' = "open"
    /\ hidden' = InitialPanels
    /\ shown' = <<>>
    /\ errorText' = ""
    /\ tasks' = <<NewTask(FALSE, "get")>>
    /\ settled' = <<>>
    /\ started' = started + 1
    /\ UNCHANGED <<now, ticks, store, orphans, ProbeVars, PageVars>>

\* the popup is closed: its document and its suspended resolutions are gone,
\* the storage calls it has issued are not
Close ==
    /\ popup = "open"
    /\ popup' = "closed"
    /\ hidden' = InitialPanels
    /\ shown' = <<>>
    /\ errorText' = ""
    /\ orphans' = orphans \cup UNION {PendingCall(tasks[i]) : i \in DOMAIN tasks}
    /\ tasks' = <<>>
    /\ settled' = <<>>
    /\ UNCHANGED <<now, ticks, store, started, ProbeVars, PageVars>>

\* a storage call of a closed popup settles
OrphanSettles ==
    \E call \in orphans, ok \in BOOLEAN :
        /\ orphans' = orphans \ {call}
        /\ store' = IF call.op = "set"
                    THEN cacheEpisode(ok, store, call.episode)
                    ELSE clearCache(ok, store)
        /\ UNCHANGED <<now, ticks, PopupVars, ProbeVars, PageVars>>

\* the refresh button's click handler, up to `await clearCache()`'s
\* storage.remove
RefreshClick ==
    /\ popup = "open"
    /\ started < MaxStarts
    /\ hidden' = showLoadingPanels(hidden)
    /\ tasks' = Append(tasks, NewTask(TRUE, "clear"))
    /\ started' = started + 1
    /\ UNCHANGED <<now, ticks, store, popup, shown, errorText, settled, orphans,
                   ProbeVars, PageVars>>

\* storage.remove settles; the handler goes on to loadEpisode, up to
\* `await chrome.storage.local.get`
ClearDone(i) ==
    /\ Running(i) /\ tasks[i].pc = "clear"
    /\ \E ok \in BOOLEAN :
        /\ store' = clearCache(ok, store)
        /\ tasks' = [tasks EXCEPT ![i].pc = "get",
                                  ![i].cleared = IF ok THEN "ok" ELSE "failed"]
    /\ UNCHANGED <<now, ticks, popup, hidden, shown, errorText, started,
                   settled, orphans, ProbeVars, PageVars>>

\* storage.get settles: getCachedEpisode returns, fetchLatestEpisode returns
\* the cached episode or calls fetch(API_URL)
\* (variant: an expired entry is removed from the store when it is read)
GetDoneEvicts(i) ==
    /\ Running(i) /\ tasks[i].pc = "get"
    /\ \E ok \in BOOLEAN :
        LET cached == getCachedEpisode(ok, store, now)
            task == [tasks[i] EXCEPT !.read = IF ok THEN "ok" ELSE "failed"]
        IN  IF cached # <<>>
            THEN Succeed(i, task, cached[1]) /\ UNCHANGED store
            ELSE /\ tasks' = [tasks EXCEPT ![i] =
                                [task EXCEPT !.pc = "fetch", !.net = @ + 1]]
                 /\ store' = IF ok THEN <<>> ELSE store
                 /\ UNCHANGED <<hidden, shown, errorText, settled>>
    /\ UNCHANGED <<now, ticks, popup, started, orphans, ProbeVars, PageVars>>
\* (variant: getCachedEpisode without its try/catch)
GetDoneReadThrows(i) ==
    /\ Running(i) /\ tasks[i].pc = "get"
    /\ \E ok \in BOOLEAN :
        LET cached == getCachedEpisode(ok, store, now)
            task == [tasks[i] EXCEPT !.read = IF ok THEN "ok" ELSE "failed"]
        IN  IF ~ok
            THEN Fail(i, task, "Cache read error")
            ELSE IF cached # <<>>
            THEN Succeed(i, task, cached[1])
            ELSE /\ tasks' = [tasks EXCEPT ![i] =
                                [task EXCEPT !.pc = "fetch", !.net = @ + 1]]
                 /\ UNCHANGED <<hidden, shown, errorText, settled>>
    /\ UNCHANGED <<now, ticks, store, popup, started, orphans, ProbeVars, PageVars>>
GetDone(i) ==
    /\ Running(i) /\ tasks[i].pc = "get"
    /\ \E ok \in BOOLEAN :
        LET cached == getCachedEpisode(ok, store, now)
            task == [tasks[i] EXCEPT !.read = IF ok THEN "ok" ELSE "failed"]
        IN  IF cached # <<>>
            THEN Succeed(i, task, cached[1])
            ELSE /\ tasks' = [tasks EXCEPT ![i] =
                                [task EXCEPT !.pc = "fetch", !.net = @ + 1]]
                 /\ UNCHANGED <<hidden, shown, errorText, settled>>
    /\ UNCHANGED <<now, ticks, store, popup, started, orphans, ProbeVars, PageVars>>

\* fetch settles: it rejects, or gives a response whose ok is tested,
\* up to `await response.json()`
FetchDone(i) ==
    /\ Running(i) /\ tasks[i].pc = "fetch"
    /\ \E transport \in Transports :
        LET thrown == CheckResponse(transport)
        IN  IF thrown # <<>>
            THEN Fail(i, tasks[i], thrown[1])
            ELSE /\ tasks' = [tasks EXCEPT ![i].pc = "json"]
                 /\ UNCHANGED <<hidden, shown, errorText, settled>>
    /\ UNCHANGED <<now, ticks, store, popup, started, orphans, ProbeVars, PageVars>>

\* response.json() settles: it rejects, or gives the payload; the episode
\* is selected and built, up to cacheEpisode's `await storage.set`
JsonDone(i) ==
    /\ Running(i) /\ tasks[i].pc = "json"
    /\ \E body \in Bodies :
        LET r == ParseAndSelect(body, now)
        IN  IF r.error # <<>>
            THEN Fail(i, tasks[i], r.error[1])
            ELSE /\ tasks' = [tasks EXCEPT ![i].pc = "set",
                                           ![i].episode = r.episode]
                 /\ UNCHANGED <<hidden, shown, errorText, settled>>
    /\ UNCHANGED <<now, ticks, store, popup, started, orphans, ProbeVars, PageVars>>

\* storage.set settles: cacheEpisode returns, fetchLatestEpisode returns the
\* episode
SetDone(i) ==
    /\ Running(i) /\ tasks[i].pc = "set"
    /\ \E ok \in BOOLEAN :
        /\ store' = cacheEpisode(ok, store, tasks[i].episode[1])
        /\ Succeed(i, [tasks[i] EXCEPT !.wrote = IF ok THEN "ok" ELSE "failed"],
                   tasks[i].episode[1])
    /\ UNCHANGED <<now, ticks, popup, started, orphans, ProbeVars, PageVars>>

Init ==
    /\ now = 0
    /\ ticks = 0
    /\ store = <<>>
    /\ popup = "closed"
    /\ hidden = InitialPanels
    /\ shown = <<>>
    /\ errorText = ""
    /\ tasks = <<>>
    /\ started = 0
    /\ settled = <<>>
    /\ orphans = {}
    /\ probeIn = NoProbe
    /\ probeOut = <<>>
    /\ PageIdle /\ hostname = TARGET_HOST

Next ==
    \/ Tick
    \/ Open
    \/ Close
    \/ OrphanSettles
    \/ RefreshClick
    \/ \E i \in 1..MaxStarts : ClearDone(i)
    \/ \E i \in 1..MaxStarts : GetDone(i)
    \/ \E i \in 1..MaxStarts : FetchDone(i)
    \/ \E i \in 1..MaxStarts : JsonDone(i)
    \/ \E i \in 1..MaxStarts : SetDone(i)

Spec == Init /\ [][Next]_vars

\* resolution i is resumed from the await it is suspended at
Resume(i) ==
    ClearDone(i) \/ GetDone(i) \/ FetchDone(i) \/ JsonDone(i) \/ SetDone(i)

\* the popup without the clock: whether a resolution ends does not depend
\* on the time, which stands still here
LiveNext ==
    \/ Open
    \/ Close
    \/ OrphanSettles
    \/ RefreshClick
    \/ \E i \in 1..MaxStarts : Resume(i)

\* every pending storage or network call eventually settles: a suspended
\* resolution of an open popup is eventually resumed
LiveSpec ==
    Init /\ [][LiveNext]_vars /\ \A i \in 1..MaxStarts : WF_vars(Resume(i))

----------------------------------------------------------------------------
(* The function harness: an input is drawn, the function is applied once.   *)

ProbeIdle ==
    /\ now = 0 /\ ticks = 0 /\ store = <<>> /\ popup = "closed"
    /\ hidden = InitialPanels /\ shown = <<>> /\ errorText = ""
    /\ tasks = <<>> /\ started = 0 /\ settled = <<>> /\ orphans = {}

ProbeInit ==
    /\ ProbeIdle
    /\ \/ probeIn \in SelectProbes
       \/ probeIn \in CacheProbes
       \/ probeIn \in FetchProbes
    /\ probeOut = <<>>
    /\ PageIdle /\ hostname = TARGET_HOST

ProbeFrame ==
    UNCHANGED <<now, ticks, store, PopupVars, orphans, probeIn, PageVars>>

\* popup.js:58-83 on the payload drawn
ProbeSelect ==
    /\ probeIn.kind = "select" /\ probeOut = <<>>
    /\ probeOut' = <<SelectEpisode(probeIn.data, probeIn.t)>>
    /\ ProbeFrame

\* popup.js:94-106 on the storage result and the time drawn
ProbeCache ==
    /\ probeIn.kind = "cache" /\ probeOut = <<>>
    /\ probeOut' = <<[error |-> <<>>,
                      episode |-> getCachedEpisode(probeIn.readOk, probeIn.entry,
                                                   probeIn.t)]>>
    /\ ProbeFrame

\* popup.js:51-83 on the transport outcome and the body drawn
ProbeFetch ==
    /\ probeIn.kind = "fetch" /\ probeOut = <<>>
    /\ probeOut' = <<FetchAndSelect(probeIn.transport, probeIn.body, probeIn.t)>>
    /\ ProbeFrame

ProbeNext == ProbeSelect \/ ProbeCache \/ ProbeFetch

ProbeSpec == ProbeInit /\ [][ProbeNext]_vars

----------------------------------------------------------------------------
(* The content script on a page.  The popup is not opened here.             *)

PopupFrame ==
    UNCHANGED <<now, ticks, store, PopupVars, orphans, ProbeVars, hostname>>

\* the page changes its tree: a mutation of the given kind under the body
PageChanges(kind) ==
    /\ changes < MaxChanges
    /\ changes' = changes + 1
    /\ sincePasses' = 0
    /\ records' = (records \/ (observing /\ Observed(kind)))
    /\ UNCHANGED <<readyState, script, listening, observing, button, marked,
                   lastPass>>
    /\ PopupFrame

\* the page (its parser or its scripts) inserts an anchor
InsertAnchor ==
    /\ Cardinality(anchors) < MaxAnchors
    /\ \E el \in Parents, href \in Hrefs :
        /\ [parent |-> el, href |-> href] \notin anchors
        /\ anchors' = anchors \cup {[parent |-> el, href |-> href]}
    /\ PageChanges("childList")

\* the page removes an anchor
RemoveAnchor ==
    /\ \E a \in anchors : anchors' = anchors \ {a}
    /\ PageChanges("childList")

\* the page sets the href attribute of an anchor
SetHref ==
    /\ \E a \in anchors, href \in Hrefs :
        /\ [parent |-> a.parent, href |-> href] \notin anchors
        /\ anchors' = (anchors \ {a}) \cup {[parent |-> a.parent, href |-> href]}
    /\ PageChanges("attributes")

\* a marking pass run by `by`; appended tells whether the button was
\* appended to the body just before it, in the same run
MarkingPass(by, appended) ==
    /\ marked' = highlightOfficialPosts(anchors, marked)
    /\ records' = \/ appended /\ observing /\ Observed("childList")
                  \/ marked' # marked /\ observing /\ Observed("attributes")
                  \/ records /\ by # "observer"
    /\ sincePasses' = IF appended THEN 1 ELSE sincePasses + 1
    /\ lastPass' = by

\* content.js:9-76 run once: the guard, the page-load dispatch, the observer
\* (document.body exists when the script runs)
RunScript ==
    /\ script = "idle"
    /\ script' = "ran"
    /\ IF ~HostGuard(hostname)
       THEN UNCHANGED <<listening, observing, records, button, marked,
                        sincePasses, lastPass>>
       ELSE IF readyState = "loading"
       THEN /\ listening' = TRUE
            /\ observing' = TRUE
            /\ UNCHANGED <<records, button, marked, sincePasses, lastPass>>
       ELSE /\ button' = addQuickPlayButton(button)
            /\ MarkingPass("load", addQuickPlayButton(button) # button)
            /\ observing' = TRUE
            /\ UNCHANGED listening
    /\ UNCHANGED <<readyState, anchors, changes>>
    /\ PopupFrame

\* DOMContentLoaded: the listener of content.js:58-61 runs if registered
DOMContentLoaded ==
    /\ readyState = "loading"
    /\ readyState' = "complete"
    /\ IF listening
       THEN /\ listening' = FALSE
            /\ button' = addQuickPlayButton(button)
            /\ MarkingPass("load", addQuickPlayButton(button) # button)
       ELSE UNCHANGED <<listening, records, button, marked, sincePasses,
                        lastPass>>
    /\ UNCHANGED <<script, observing, anchors, changes>>
    /\ PopupFrame

\* the observer's callback is delivered the queued records, content.js:68-70
ObserverCallback ==
    /\ observing /\ records
    /\ MarkingPass("observer", FALSE)
    /\ UNCHANGED <<readyState, script, listening, observing, button, anchors,
                   changes>>
    /\ PopupFrame

ContentInit ==
    /\ ProbeIdle /\ probeIn = NoProbe /\ probeOut = <<>>
    /\ PageIdle
    /\ hostname \in Hostnames

ContentNext ==
    \/ InsertAnchor
    \/ RemoveAnchor
    \/ SetHref
    \/ RunScript
    \/ DOMContentLoaded
    \/ ObserverCallback

ContentSpec == ContentInit /\ [][ContentNext]_vars

\* the script is run, the document finishes loading and queued mutation
\* records are delivered
FairContentSpec ==
    /\ ContentSpec
    /\ WF_vars(RunScript)
    /\ WF_vars(DOMContentLoaded)
    /\ WF_vars(ObserverCallback)

----------------------------------------------------------------------------
(* Vocabulary of the properties *)

\* the store holds an entry younger than the window
StoredFresh ==
    store # <<>> /\ now - store[1].fetchedAt < CACHE_DURATION_MS

\* in this step resolution i is resumed from the await named pc
Leaves(i, pc) ==
    /\ i \in DOMAIN tasks /\ tasks[i].pc = pc
    /\ i \in DOMAIN tasks' /\ tasks'[i].pc # pc

\* in this step resolution i finishes
SettlesNow(i) ==
    /\ i \in DOMAIN tasks /\ tasks[i].pc # "done"
    /\ i \in DOMAIN tasks' /\ tasks'[i].pc = "done"
    /\ settled' # <<>> /\ settled'[1].id = i

\* after this step, the storage.get of resolution i is known to have settled
ReadSucceeded(i) ==
    IF tasks'[i].pc = "done"
    THEN settled' # <<>> /\ settled'[1].id = i /\ settled'[1].read = "ok"
    ELSE tasks'[i].read = "ok"

ReturnsStored(i) ==
    /\ SettlesNow(i)
    /\ settled'[1].outcome = "player"
    /\ settled'[1].value = store
    /\ settled'[1].net = 0

----------------------------------------------------------------------------
(* C1 as claimed: whenever the store holds an entry younger than 30         *)
(* minutes when a non-forced resolution reads the cache, the resolution     *)
(* returns that entry and has called fetch zero times.                      *)
C1_AsClaimed ==
    [][\A i \in DOMAIN tasks :
          (Leaves(i, "get") /\ ~tasks[i].forced /\ StoredFresh)
              => ReturnsStored(i)]_vars

(* C1 amended: the same, provided the storage read of that resolution       *)
(* succeeds.                                                                *)
C1_CacheHitNoNetwork ==
    [][\A i \in DOMAIN tasks :
          (Leaves(i, "get") /\ ~tasks[i].forced /\ StoredFresh
              /\ ReadSucceeded(i))
              => ReturnsStored(i)]_vars

C1_Reached ==
    /\ popup = "open" /\ settled # <<>>
    /\ ~settled[1].forced /\ settled[1].read = "ok"
    /\ settled[1].outcome = "player" /\ settled[1].net = 0
    /\ settled[1].value = store
    /\ now - store[1].fetchedAt = 15 * MinuteMs

(* C2 as claimed: every forced resolution (refresh click) that has          *)
(* completed has called fetch at least once.                                *)
C2_AsClaimed ==
    \A i \in DOMAIN tasks :
        (tasks[i].pc = "done" /\ tasks[i].forced) => tasks[i].net >= 1

(* C3 as claimed: a non-forced resolution that reads the cache when no      *)
(* entry younger than 30 minutes is stored calls fetch exactly once; when   *)
(* an episode is selected it is written to the store and returned.          *)
C3_AsClaimed ==
    [][\A i \in DOMAIN tasks : ~tasks[i].forced =>
          /\ (Leaves(i, "get") /\ ~StoredFresh)
                => (tasks'[i].pc = "fetch" /\ tasks'[i].net = 1)
          /\ (i \in DOMAIN tasks' /\ ~Leaves(i, "get"))
                => tasks'[i].net = tasks[i].net
          /\ Leaves(i, "set")
                => /\ SettlesNow(i)
                   /\ settled'[1].outcome = "player"
                   /\ settled'[1].net = 1
                   /\ settled'[1].value = tasks[i].episode
                   /\ store' = tasks[i].episode]_vars

(* C3 amended: the same, except that the record is written to the store     *)
(* only when the storage write succeeds; when the write fails the store is  *)
(* left as it was and the record is still returned.                         *)
C3_MissFetchesOnce ==
    [][\A i \in DOMAIN tasks : ~tasks[i].forced =>
          /\ (Leaves(i, "get") /\ ~StoredFresh)
                => (tasks'[i].pc = "fetch" /\ tasks'[i].net = 1)
          /\ (i \in DOMAIN tasks' /\ ~Leaves(i, "get"))
                => tasks'[i].net = tasks[i].net
          /\ Leaves(i, "set")
                => /\ SettlesNow(i)
                   /\ settled'[1].outcome = "player"
                   /\ settled'[1].net = 1
                   /\ settled'[1].value = tasks[i].episode
                   /\ settled'[1].wrote = "ok" => store' = tasks[i].episode
                   /\ settled'[1].wrote = "failed" => store' = store]_vars

C3_Reached ==
    /\ popup = "open" /\ settled # <<>>
    /\ ~settled[1].forced /\ settled[1].read = "ok"
    /\ settled[1].outcome = "player" /\ settled[1].net = 1
    /\ settled[1].wrote = "ok" /\ settled[1].value = store

----------------------------------------------------------------------------
\* after this step, the storage.get of resolution i is known to have rejected
ReadFailed(i) ==
    IF tasks'[i].pc = "done"
    THEN settled' # <<>> /\ settled'[1].id = i /\ settled'[1].read = "failed"
    ELSE tasks'[i].read = "failed"

OnlyVisible(p) == hidden = [q \in Panels |-> q # p]

(* C8: a failing storage read is a cache miss and the resolution goes on    *)
(* to call fetch; a failing storage write leaves the store as it was and    *)
(* the resolution returns the record it fetched; a failing storage remove   *)
(* leaves the refresh going on to the cache read; and no step that settles  *)
(* a storage call ends a resolution in error or makes the error panel       *)
(* visible.                                                                 *)
C8_StorageFailuresSwallowed ==
    [][\A i \in DOMAIN tasks :
          /\ (Leaves(i, "get") /\ ReadFailed(i))
                => /\ tasks'[i].pc = "fetch"
                   /\ tasks'[i].net = tasks[i].net + 1
                   /\ store' = store
          /\ (Leaves(i, "set") /\ settled' # <<>> /\ settled'[1].id = i
                /\ settled'[1].wrote = "failed")
                => /\ SettlesNow(i)
                   /\ settled'[1].outcome = "player"
                   /\ settled'[1].value = tasks[i].episode
                   /\ store' = store
          /\ (Leaves(i, "clear") /\ tasks'[i].cleared = "failed")
                => /\ tasks'[i].pc = "get"
                   /\ store' = store
          /\ (Leaves(i, "get") \/ Leaves(i, "set") \/ Leaves(i, "clear"))
                => /\ tasks'[i].outcome # "error"
                   /\ hidden'["error"] \/ ~hidden["error"]
                   /\ errorText' = errorText]_vars

\* a refresh whose remove, read and write all failed still shows the player
C8_Reached ==
    /\ popup = "open" /\ settled # <<>>
    /\ settled[1].forced
    /\ settled[1].cleared = "failed" /\ settled[1].read = "failed"
    /\ settled[1].wrote = "failed"
    /\ settled[1].outcome = "player" /\ settled[1].value # <<>>
    /\ OnlyVisible("player")
    /\ store = <<>>

ClaimedTransportErrors ==
    {"Failed to fetch", "API request failed: 404", "API request failed: 500"}
ClaimedPayloadErrors ==
    {"No episodes available", "No published episodes found"}

(* C9: when a resolution fails with a network, upstream or no-published     *)
(* error, in that step the error panel alone becomes visible, the error     *)
(* message shown is the message of the error raised, the store is not       *)
(* changed, and the resolution neither has written to the cache nor takes   *)
(* any further step (it calls fetch no more).                               *)
C9_ErrorShownNoRetry ==
    [][\A i \in DOMAIN tasks :
          /\ (SettlesNow(i) /\ settled'[1].outcome = "error"
                /\ settled'[1].message
                      \in ClaimedTransportErrors \cup ClaimedPayloadErrors)
                => /\ hidden' = [q \in Panels |-> q # "error"]
                   /\ errorText' = settled'[1].message
                   /\ tasks[i].pc = "fetch"
                        => settled'[1].message \in ClaimedTransportErrors
                   /\ tasks[i].pc = "json"
                        => settled'[1].message \in ClaimedPayloadErrors
                   /\ store' = store
                   /\ settled'[1].wrote = "none"
                   /\ settled'[1].net = 1
                   /\ tasks'[i].net = 1
          /\ (tasks[i].pc = "done" /\ i \in DOMAIN tasks')
                => tasks'[i] = tasks[i]]_vars

C9_Reached ==
    /\ popup = "open" /\ settled # <<>>
    /\ settled[1].outcome = "error"
    /\ settled[1].message = "No published episodes found"
    /\ errorText = "No published episodes found"
    /\ OnlyVisible("error")
    /\ settled[1].net = 1
    /\ \A i \in DOMAIN tasks : tasks[i].pc = "done"

(* C10: while the popup is open exactly one of the panels loading, player   *)
(* and error is visible, and it is loading until the first resolution       *)
(* finishes.                                                                *)
C10_OnePanelVisible ==
    popup = "open" =>
        /\ Cardinality({p \in Panels : ~hidden[p]}) = 1
        /\ (\A i \in DOMAIN tasks : tasks[i].pc # "done") => OnlyVisible("loading")

\* the refresh failed first, then the activation load finished: the player
\* panel has replaced the error panel
C10_Reached ==
    /\ popup = "open"
    /\ Len(tasks) = 2
    /\ tasks[1].pc = "done" /\ tasks[1].outcome = "player"
    /\ tasks[2].pc = "done" /\ tasks[2].outcome = "error"
    /\ settled[1].id = 1
    /\ OnlyVisible("player")

----------------------------------------------------------------------------
\* the view's state, as the panels show it
InPlayerOrError == OnlyVisible("player") \/ OnlyVisible("error")

\* this step is the refresh button's click handler starting
IsRefreshClick ==
    /\ popup = "open" /\ Len(tasks') = Len(tasks) + 1
    /\ tasks'[Len(tasks')].forced

(* C11 as claimed: while the popup is open, every step that changes the     *)
(* panels when the view is in Player or Error is a refresh click (so no     *)
(* completion of a resolution turns Player into Error or Error into         *)
(* Player), and a resolution is started only by the activation or by a      *)
(* refresh click.                                                           *)
C11_AsClaimed ==
    [][/\ (popup = "open" /\ popup' = "open" /\ InPlayerOrError
            /\ hidden' # hidden) => IsRefreshClick
       /\ started' # started => (popup = "closed" \/ IsRefreshClick)]_vars

ReopenedReads ==
    started >= 2 /\ Len(tasks) = 1 /\ Leaves(1, "get") /\ ~tasks[1].forced

(* C13 as claimed: when a popup opened after an earlier popup was closed    *)
(* reads the cache while the stored entry is younger than 30 minutes, it    *)
(* shows the player panel with that same record and calls fetch zero        *)
(* times.                                                                   *)
C13_AsClaimed ==
    [][(ReopenedReads /\ StoredFresh)
          => /\ ReturnsStored(1)
             /\ hidden' = [q \in Panels |-> q # "player"]
             /\ shown' = store]_vars

(* C13 amended: the same, provided the storage read of the new popup        *)
(* succeeds.                                                                *)
C13_CacheOutlivesPopup ==
    [][(ReopenedReads /\ StoredFresh /\ ReadSucceeded(1))
          => /\ ReturnsStored(1)
             /\ hidden' = [q \in Panels |-> q # "player"]
             /\ shown' = store]_vars

\* the second popup shows the record the first one stored 15 minutes ago
C13_Reached ==
    /\ popup = "open" /\ started = 2 /\ Len(tasks) = 1
    /\ settled # <<>> /\ settled[1].id = 1 /\ settled[1].read = "ok"
    /\ settled[1].outcome = "player" /\ settled[1].net = 0
    /\ store # <<>> /\ shown = store /\ settled[1].value = store
    /\ OnlyVisible("player")
    /\ now - store[1].fetchedAt = 15 * MinuteMs

(* C19 as claimed: while the resolution started by the latest refresh       *)
(* click has not finished, the loading panel alone is visible, whatever     *)
(* earlier resolution finishes meanwhile; and once every resolution has     *)
(* finished, the resolution that finished last, whose outcome is shown, is  *)
(* the one started last.                                                    *)
C19_AsClaimed ==
    (popup = "open" /\ Len(tasks) >= 2) =>
        /\ tasks[Len(tasks)].pc # "done" => OnlyVisible("loading")
        /\ (\A i \in DOMAIN tasks : tasks[i].pc = "done")
              => settled[1].id = Len(tasks)

(* C20: under LiveSpec (every pending storage or network call eventually    *)
(* settles), every resolution that is running in an open popup eventually   *)
(* finishes with the player panel or the error panel alone visible, and     *)
(* the loading panel does not stay visible forever, unless the popup is     *)
(* closed first.                                                            *)
C20_ResolutionsEnd ==
    /\ \A i \in 1..MaxStarts :
          (popup = "open" /\ Running(i))
              ~> \/ popup = "closed"
                 \/ /\ i \in DOMAIN tasks /\ tasks[i].pc = "done"
                    /\ InPlayerOrError
    /\ (popup = "open" /\ OnlyVisible("loading"))
          ~> (popup = "closed" \/ InPlayerOrError)

\* a refresh that went through remove, get, fetch, json and set has ended
\* after the activation load, in Player
C20_Reached ==
    /\ popup = "open" /\ Len(tasks) = 2
    /\ \A i \in DOMAIN tasks : tasks[i].pc = "done"
    /\ settled # <<>> /\ settled[1].id = 2 /\ settled[1].forced
    /\ settled[1].cleared # "none" /\ settled[1].read # "none"
    /\ settled[1].wrote # "none" /\ settled[1].net = 1
    /\ settled[1].outcome = "player"
    /\ OnlyVisible("player")

\* in this step resolution i takes a step
Steps(i) == i \in DOMAIN tasks /\ i \in DOMAIN tasks' /\ tasks'[i] # tasks[i]

StoredExpired ==
    store # <<>> /\ now - store[1].fetchedAt >= CACHE_DURATION_MS

(* C21: a step of a non-forced resolution leaves the store as it was,       *)
(* unless it is the settling of the resolution's own storage.set, which     *)
(* puts the fetched record or, when it fails, leaves the store too; so the  *)
(* cache read, hit or miss, expired entry or not, and every failure of      *)
(* the fetch leave the entry exactly as it was.                             *)
C21_OnlyPutChangesStore ==
    [][\A i \in DOMAIN tasks :
          (Steps(i) /\ ~tasks[i].forced) =>
              /\ store' # store
                    => (Leaves(i, "set") /\ store' = tasks[i].episode)
              /\ ~Leaves(i, "set") => store' = store]_vars

\* the activation load of a second popup has read an entry of 30 minutes,
\* fetched, and failed: the expired entry is still stored
C21_Reached ==
    /\ popup = "open" /\ settled # <<>>
    /\ ~settled[1].forced /\ settled[1].read = "ok"
    /\ settled[1].outcome = "error" /\ settled[1].net = 1
    /\ StoredExpired

(* C23 as claimed: the store becomes empty only when a storage.remove of    *)
(* a refresh settles; and when a forced resolution fails at its fetch, the  *)
(* store holds no entry.                                                    *)
C23_AsClaimed ==
    [][/\ (store # <<>> /\ store' = <<>>)
            => \/ \E i \in DOMAIN tasks : Leaves(i, "clear")
               \/ \E call \in orphans : call.op = "remove" /\ call \notin orphans'
       /\ \A i \in DOMAIN tasks :
            (tasks[i].forced /\ SettlesNow(i) /\ settled'[1].outcome = "error")
                => store' = <<>>]_vars

----------------------------------------------------------------------------
(* Vocabulary of the properties of the functions *)

Probed(kind) == probeIn.kind = kind /\ probeOut # <<>>

\* the raw episodes of the payload drawn (none when the field is missing)
ProbeEpisodes ==
    IF probeIn.data.episodes = <<>> THEN <<>> ELSE probeIn.data.episodes[1]

PublishedIndexes ==
    {i \in DOMAIN ProbeEpisodes : ProbeEpisodes[i].published_state = "PUBLISHED"}

ProbeAge == probeIn.t - probeIn.entry[1].fetchedAt

(* C4 as claimed: the cache read returns the stored entry if and only if    *)
(* an entry exists and now - fetchedAt < 30 minutes; otherwise absent.      *)
C4_AsClaimed ==
    Probed("cache") =>
        IF probeIn.entry # <<>> /\ ProbeAge < 30 * MinuteMs
        THEN probeOut[1].episode = probeIn.entry
        ELSE probeOut[1].episode = <<>>

(* C4 amended: the cache read returns the stored entry if and only if the   *)
(* storage read succeeds, an entry exists and now - fetchedAt < 30 minutes  *)
(* (strictly); otherwise, so at age exactly 30 minutes and above, absent.   *)
C4_CacheWindow ==
    Probed("cache") =>
        IF probeIn.readOk /\ probeIn.entry # <<>> /\ ProbeAge < 30 * MinuteMs
        THEN probeOut[1].episode = probeIn.entry
        ELSE probeOut[1].episode = <<>>

C4_Reached ==
    /\ Probed("cache") /\ probeIn.readOk /\ probeIn.entry # <<>>
    /\ ProbeAge = 30 * MinuteMs
    /\ probeOut[1].episode = <<>>

(* C5: for every payload with at least one PUBLISHED episode, the episode   *)
(* selected is a PUBLISHED one whose published_date is the latest among     *)
(* the PUBLISHED episodes; an unpublished episode is never selected.        *)
C5_LatestPublished ==
    (Probed("select") /\ PublishedIndexes # {}) =>
        /\ probeOut[1].error = <<>>
        /\ probeOut[1].episode # <<>>
        /\ \E i \in PublishedIndexes :
              /\ probeOut[1].episode[1].episodeNumber
                    = ProbeEpisodes[i].episode_number
              /\ probeOut[1].episode[1].audioUrl
                    = <<CDN_BASE, ProbeEpisodes[i].episode_id,
                        ProbeEpisodes[i].file_name>>
              /\ probeOut[1].episode[1].date = ProbeEpisodes[i].published_date.day
              /\ \A j \in PublishedIndexes :
                    DateValue(ProbeEpisodes[j].published_date)
                        <= DateValue(ProbeEpisodes[i].published_date)

\* PUBLISHED #40 of day 1 and DRAFT #41 of day 2: #40 is selected
C5_Reached ==
    /\ Probed("select")
    /\ Len(ProbeEpisodes) = 2
    /\ ProbeEpisodes[1].published_state = "PUBLISHED"
    /\ ProbeEpisodes[1].published_date = [day |-> 1, hour |-> 0]
    /\ ProbeEpisodes[2].published_state = "DRAFT"
    /\ ProbeEpisodes[2].published_date = [day |-> 2, hour |-> 0]
    /\ probeOut[1].episode # <<>>
    /\ probeOut[1].episode[1].episodeNumber = 40

(* C6 as claimed: for every raw collection with no PUBLISHED episode, the   *)
(* empty collection included, the failure is 'No published episodes found'  *)
(* and no record is produced.                                               *)
C6_AsClaimed ==
    (Probed("select") /\ probeIn.data.episodes # <<>> /\ PublishedIndexes = {}) =>
        /\ probeOut[1].error = <<"No published episodes found">>
        /\ probeOut[1].episode = <<>>

(* C6 amended: for every non-empty raw collection with no PUBLISHED         *)
(* episode the failure is 'No published episodes found'; for the empty      *)
(* collection it is 'No episodes available'; no record is produced in       *)
(* either case.                                                             *)
C6_NoPublished ==
    (Probed("select") /\ probeIn.data.episodes # <<>> /\ PublishedIndexes = {}) =>
        /\ probeOut[1].error =
              IF Len(ProbeEpisodes) = 0
              THEN <<"No episodes available">>
              ELSE <<"No published episodes found">>
        /\ probeOut[1].episode = <<>>

C6_Reached ==
    /\ Probed("select")
    /\ Len(ProbeEpisodes) = 2
    /\ \A i \in DOMAIN ProbeEpisodes :
          ProbeEpisodes[i].published_state \in {"DRAFT", "published"}
    /\ probeOut[1].error = <<"No published episodes found">>

(* C7: the fetch fails with the network error (fetch rejected, or the       *)
(* response's status is not ok) whatever the body is; when the transport    *)
(* succeeds and the payload lacks the episodes field or holds zero          *)
(* episodes it fails with 'No episodes available'; both before any          *)
(* episode is selected.                                                     *)
C7_FetchErrors ==
    Probed("fetch") =>
        LET tr == probeIn.transport
            body == probeIn.body
            transportOk == ~tr.rejected /\ tr.status \in 200..299
        IN  /\ tr.rejected =>
                /\ probeOut[1].error = <<"Failed to fetch">>
                /\ probeOut[1].episode = <<>>
            /\ (~tr.rejected /\ tr.status \notin 200..299) =>
                /\ probeOut[1].error
                      = <<"API request failed: " \o ToString(tr.status)>>
                /\ probeOut[1].episode = <<>>
            /\ (transportOk /\ ~body.malformed
                  /\ (body.data.episodes = <<>> \/ body.data.episodes = << <<>> >>)) =>
                /\ probeOut[1].error = <<"No episodes available">>
                /\ probeOut[1].episode = <<>>
            /\ (transportOk /\ ~body.malformed /\ body.data.episodes # <<>>
                  /\ body.data.episodes # << <<>> >>) =>
                probeOut[1].error \in {<<>>, <<"No published episodes found">>}

\* status 500 with a body that lacks the episodes field: the network error
C7_Reached ==
    /\ Probed("fetch")
    /\ ~probeIn.transport.rejected /\ probeIn.transport.status = 500
    /\ ~probeIn.body.malformed /\ probeIn.body.data.episodes = <<>>
    /\ probeOut[1].error = <<"API request failed: 500">>

----------------------------------------------------------------------------
(* Vocabulary of the properties of the content script *)

\* in this step a marking pass runs
PassRuns ==
    \/ sincePasses' = sincePasses + 1
    \/ listening /\ ~listening'

\* in this step the observer's callback runs
CallbackRuns ==
    /\ observing /\ records
    /\ lastPass' = "observer" /\ sincePasses' = sincePasses + 1

\* the claim's rule for an official href
QualifiesAsClaimed(href) ==
    /\ Includes(href, <<"/diggdaily", "/">>)
    /\ Includes(href, <<"/", "digg-daily-">>)
    /\ ~Includes(href, <<"homemade">>)
    /\ ~Includes(href, <<"recap">>)

\* the nearest ancestor that is an <article> or a <div>: <<>> or <<element>>
NearestContainer(el) ==
    LET hits == {k \in DOMAIN Path(el) :
                    TagName(Path(el)[k]) \in {"article", "div"}}
    IN  IF hits = {} THEN <<>>
        ELSE <<Path(el)[CHOOSE k \in hits : \A j \in hits : k <= j]>>

\* the nearest enclosing <article>, or with none the nearest enclosing <div>
ArticleElseDiv(el) ==
    IF \E k \in DOMAIN Path(el) : Path(el)[k] = "article"
    THEN <<"article">>
    ELSE IF el = "div" THEN <<"div">> ELSE <<>>

\* the host is the target domain or one of its subdomains
IsTargetDomain(host) == host \in {<<"digg.com">>, <<"www.", "digg.com">>}

HREF_123 == <<"/diggdaily", "/", "digg-daily-", "123">>
HREF_HOMEMADE_5 == <<"/diggdaily", "/", "digg-daily-", "homemade", "-5">>

\* a marking pass is due: at load, or for queued mutation records
PassDue ==
    /\ HostGuard(hostname)
    /\ script = "idle" \/ listening \/ (observing /\ records)

(* C14: a marking pass leaves the anchors as they are, a second pass on     *)
(* its result would mark the same set of containers, and a pass that runs   *)
(* on a tree unchanged since the previous pass changes nothing: no mark,    *)
(* no button, no anchor, no mutation record.                                *)
C14_PassIdempotent ==
    [][PassRuns =>
          /\ anchors' = anchors
          /\ highlightOfficialPosts(anchors', marked') = marked'
          /\ sincePasses' = 2 =>
                /\ marked' = marked
                /\ button' = button
                /\ ~records']_vars

\* the load pass has marked both containers, the pass run for the appended
\* button has run after it on the same tree
C14_Reached ==
    /\ sincePasses = 2 /\ lastPass = "observer"
    /\ marked = {"article", "div"}
    /\ Cardinality(anchors) = 2

(* C15 as claimed: after a marking pass an element is marked if and only    *)
(* if it was marked before or it is the nearest enclosing container         *)
(* (<article> or <div>) of an anchor whose href contains '/diggdaily/' and  *)
(* '/digg-daily-' and neither 'homemade' nor 'recap'.                       *)
C15_AsClaimed ==
    [][PassRuns =>
          \A el \in Parents :
              el \in marked' <=>
                 \/ el \in marked
                 \/ \E a \in anchors :
                       /\ QualifiesAsClaimed(a.href)
                       /\ NearestContainer(a.parent) = <<el>>]_vars

(* C15 amended: after a marking pass an element is marked if and only if    *)
(* it was marked before or it is, for an anchor whose href contains         *)
(* '/diggdaily/' and '/digg-daily-' and neither 'homemade' nor 'recap',     *)
(* the nearest enclosing <article> or, when the anchor is in no <article>,  *)
(* the nearest enclosing <div>.                                             *)
C15_MarksOfficial ==
    [][PassRuns =>
          \A el \in Parents :
              el \in marked' <=>
                 \/ el \in marked
                 \/ \E a \in anchors :
                       /\ QualifiesAsClaimed(a.href)
                       /\ ArticleElseDiv(a.parent) = <<el>>]_vars

\* /diggdaily/digg-daily-123 in the <div> of the <article> has marked the
\* <article>; /diggdaily/digg-daily-homemade-5 in the other <div> has
\* marked nothing
C15_Reached ==
    /\ sincePasses >= 1
    /\ anchors = {[parent |-> "articleDiv", href |-> HREF_123],
                  [parent |-> "div", href |-> HREF_HOMEMADE_5]}
    /\ marked = {"article"}

(* C16 as claimed: on a page the script is active on, every anchor that is  *)
(* in the tree with a qualifying href and an enclosing container            *)
(* eventually has that container marked.                                    *)
C16_AsClaimed ==
    \A el \in Parents \ {"body"}, href \in {h \in Hrefs : QualifiesAsClaimed(h)} :
        (HostGuard(hostname) /\ [parent |-> el, href |-> href] \in anchors)
            ~> (ArticleElseDiv(el)[1] \in marked)

(* C16 amended: on a page the script is active on, every anchor that is in  *)
(* the tree with a qualifying href and an enclosing container while a       *)
(* marking pass is due (the load pass, or the pass for an insertion or      *)
(* removal of nodes) eventually has that container marked, unless the page  *)
(* takes the anchor out or changes its href before the pass runs.           *)
C16_EventuallyMarked ==
    \A el \in Parents \ {"body"}, href \in {h \in Hrefs : QualifiesAsClaimed(h)} :
        (PassDue /\ [parent |-> el, href |-> href] \in anchors)
            ~> \/ ArticleElseDiv(el)[1] \in marked
               \/ [parent |-> el, href |-> href] \notin anchors

\* the only change of the page is the insertion of an official anchor after
\* the load pass; the one pass since, the observer's, has marked its <div>
C16_Reached ==
    /\ button = 1 /\ readyState = "complete"
    /\ changes = 1 /\ sincePasses = 1 /\ lastPass = "observer"
    /\ anchors = {[parent |-> "div", href |-> HREF_123]}
    /\ marked = {"div"}
    /\ ~records

(* C17 as claimed: on a page whose host is not the target domain the        *)
(* script installs no observer and no listener, adds no button and marks    *)
(* no element.                                                              *)
C17_AsClaimed ==
    ~IsTargetDomain(hostname) =>
        /\ ~observing /\ ~listening
        /\ button = 0
        /\ marked = {}

(* C18: the observer's callback leaves no mutation record queued, also      *)
(* when its pass marks new containers; the only record the script itself    *)
(* queues is for the button appended at load; and once the page has         *)
(* stopped changing its tree no record stays queued, so no more pass runs.  *)
C18_WatcherQuiescent ==
    /\ [][/\ CallbackRuns => ~records'
          /\ (~records /\ records' /\ changes' = changes)
                => (button' = button + 1 /\ observing)]_vars
    /\ <>[](~records)

\* the observer's pass has marked the <article> of an anchor inserted after
\* load, and nothing is queued
C18_Reached ==
    /\ button = 1 /\ observing /\ ~records
    /\ changes = 1 /\ sincePasses = 1 /\ lastPass = "observer"
    /\ anchors = {[parent |-> "articleDiv", href |-> HREF_123]}
    /\ marked = {"article"}

(* C22: the page never holds more than one quick-play button, and whenever  *)
(* it holds one a call of addQuickPlayButton leaves the number of buttons   *)
(* as it is.                                                                *)
C22_OneButton ==
    /\ button <= 1
    /\ button >= 1 => addQuickPlayButton(button) = button

\* the load listener has appended the button, the callback for it has run
C22_Reached ==
    /\ button = 1 /\ script = "ran" /\ ~listening /\ observing
    /\ lastPass = "observer" /\ ~records

(* C24: no step takes the mark off an element: the set of marked elements   *)
(* only grows, also in a pass that runs after the qualifying anchor was     *)
(* removed or its href was changed.                                         *)
C24_MarksOnlyGrow ==
    [][marked \subseteq marked']_vars

\* the official anchor was inserted, its <div> marked, the anchor removed,
\* and the pass for the removal has run: the <div> is still marked
C24_Reached ==
    /\ marked = {"div"} /\ anchors = {}
    /\ changes = 2 /\ sincePasses = 1 /\ lastPass = "observer"
    /\ ~records

====
